---------------------------- MODULE Spec2Model ----------------------------
(***************************************************************************)
(* AR-tools demonstration notebooks.                                       *)
(*                                                                         *)
(*   "DSR - CSTR connection" notebook: rate_fn, dsr_fn, the CSTR locus      *)
(*   loop (continuation over the residence times) and the interactive      *)
(*   plot_fn.                                                              *)
(*   "Bounding hyperplane demo" notebook: the van de Vusse rate_fn, the    *)
(*   feed point and stoichiometry, and the polytope plot_fn.               *)
(*                                                                         *)
(* Numbers.  The notebooks compute in binary floating point.  A real x is  *)
(* modelled by the integer nearest to x * Scale (fixed point); sums and    *)
(* differences are exact and every product is rounded to the nearest       *)
(* representable value, as a floating-point product is.  A concentration   *)
(* vector is a sequence of such numbers.  A time argument is <<>> for the  *)
(* empty list [] and <<x>> for a scalar x.                                 *)
(***************************************************************************)
EXTENDS Integers, Sequences, FiniteSets, TLC

VARIABLES
    pc,         \* DSR notebook: "locus" | "raised" | "interact"
    tau_i,      \* index in cstr_ts of the next residence time of the for loop
    cstr_cf,    \* global cstr_cf
    c_guess,    \* global c_guess
    cstr_cs,    \* global cstr_cs (the locus, in append order)
    seeds,      \* per solve: its tau, the guess handed to newton_krylov, the outcome
    warned,     \* a RuntimeWarning was written to stderr
    Cf,         \* plot_fn: Cf of the last invocation
    ts,         \* plot_fn: time grid of the last invocation
    dsr_opts,   \* plot_fn: (alpha, C0) of the last invocation
    dsr_cs,     \* plot_fn: trajectory of the last invocation
    fC,         \* function-level evaluation: concentration argument C
    fC0,        \* function-level evaluation: side-stream composition C0
    ft,         \* function-level evaluation: time argument of the dsr_fn calls
    dsr_out,    \* alpha -> dsr_fn(fC, ft, (alpha, fC0)), for the calls made
    rate_out,   \* t -> the set of values rate_fn(fC, t) has returned
    vdv_out,    \* the value the van de Vusse rate_fn returned for Cf0
    hp_b,       \* polytope demo: bound vector b of the last invocation
    hp_A,       \* polytope demo: constraint matrix A of the last invocation
    P_cs        \* polytope demo: vertices of the last invocation

nbVars   == <<pc, tau_i, cstr_cf, c_guess, cstr_cs, seeds, warned>>
plotVars == <<Cf, ts, dsr_opts, dsr_cs>>
fnVars   == <<fC, fC0, ft, dsr_out, rate_out, vdv_out>>
hpVars   == <<hp_b, hp_A, P_cs>>
vars     == <<nbVars, plotVars, fnVars, hpVars>>

----------------------------------------------------------------------------
(* Fixed-point arithmetic *)

Scale == 10000

Abs(x) == IF x < 0 THEN -x ELSE x
Sgn(x) == IF x < 0 THEN -1 ELSE IF x > 0 THEN 1 ELSE 0

\* n / d rounded to the nearest integer, for n >= 0 and d > 0
RDiv(n, d) == (n + d \div 2) \div d

\* the rounded product of two fixed-point numbers (split so that no
\* intermediate value leaves the 32-bit range)
MulNat(x, y) == (x \div Scale) * y + RDiv((x % Scale) * y, Scale)
Mul(x, y) == Sgn(x) * Sgn(y) * MulNat(Abs(x), Abs(y))

VAdd(u, v) == [i \in DOMAIN u |-> u[i] + v[i]]
VSub(u, v) == [i \in DOMAIN u |-> u[i] - v[i]]
VScale(a, v) == [i \in DOMAIN v |-> Mul(a, v[i])]

RECURSIVE MaxNorm(_)
MaxNorm(v) ==
    IF v = <<>> THEN 0
    ELSE LET m == MaxNorm(Tail(v)) IN IF Abs(Head(v)) > m THEN Abs(Head(v)) ELSE m

----------------------------------------------------------------------------
(* DSR notebook: kinetics and DSR right-hand side *)

k1 == Scale
k2 == Scale

\* a kinetics that reads its time argument
rate_fn_uses_t(C, t) ==
    LET cA == C[1]
        cB == C[2]
        w  == IF t = <<>> THEN Scale ELSE Scale + t[1]
        rA == Mul(Mul(Mul(-k1, cA), cB), w)
        rB == Mul(Mul(k1, cA), cB) - Mul(k2, Mul(cB, cB))
    IN  <<rA, rB>>

rate_fn(C, t) ==
    LET cA == C[1]
        cB == C[2]
        rA == Mul(Mul(-k1, cA), cB)
        rB == Mul(Mul(k1, cA), cB) - Mul(k2, Mul(cB, cB))
    IN  <<rA, rB>>

\* the equation as the notebook's text prints it: relaxation against the
\* feed of the trajectory instead of the current state
dsr_fn_feed(C, t, opts) ==
    LET alpha == opts[1]
        C0    == opts[2]
    IN  VAdd(rate_fn(C, t), VScale(alpha, VSub(C0, Cf)))

\* a misplaced parenthesis: alpha multiplies C0 only
dsr_fn_paren(C, t, opts) ==
    LET alpha == opts[1]
        C0    == opts[2]
    IN  VSub(VAdd(rate_fn(C, t), VScale(alpha, C0)), C)

\* alpha applied to the kinetics instead of the relaxation term
dsr_fn_swapped(C, t, opts) ==
    LET alpha == opts[1]
        C0    == opts[2]
    IN  VAdd(VScale(alpha, rate_fn(C, t)), VSub(C0, C))

\* the relaxation term with its sign reversed: alpha*(C - C0)
dsr_fn_sign(C, t, opts) ==
    LET alpha == opts[1]
        C0    == opts[2]
    IN  VSub(rate_fn(C, t), VScale(alpha, VSub(C0, C)))

dsr_fn(C, t, opts) ==
    LET alpha == opts[1]
        C0    == opts[2]
    IN  VAdd(rate_fn(C, t), VScale(alpha, VSub(C0, C)))

----------------------------------------------------------------------------
(* DSR notebook: the CSTR locus cell *)

\* solver tolerance f_tol = 1e-4
f_tol == Scale \div 10000

\* Residence times.  The notebook visits 100 logarithmically spaced values
\* between 1e-3 and 5e4; the model visits the first NumTau entries of an
\* increasing table of residence times of that range (0.001, 0.6173, 1.0417,
\* ... 90.0, in units of 1/Scale), picked so that the balance has a solution
\* among the vectors the model lets the root-finder return.
NumTau == 4
TauTable == <<10, 6173, 10417, 15306, 22222, 33333, 53571, 97222, 222222, 900000>>
cstr_ts == SubSeq(TauTable, 1, NumTau)

\* The vectors the root-finder can return: a grid of GridN + 1 values per
\* component, GridStep apart.
GridN == 100
GridStep == Scale \div 100
CGrid == {k * GridStep : k \in 0..GridN}
Candidates == {<<a, b>> : a \in CGrid, b \in CGrid}

cstr_fn(Ci, tau) ==
    LET ri == rate_fn(Ci, <<>>)
        f  == VSub(VAdd(cstr_cf, VScale(tau, ri)), Ci)
    IN  f

\* scipy.optimize.newton_krylov(cstr_fn, xin, f_tol) for the residence time
\* tau that cstr_fn closes over.  The library routine is used through its
\* contract: it returns an x whose residual satisfies the termination
\* condition max |cstr_fn(x)| <= f_tol, or it raises NoConvergence.
newton_krylov(tau, xin, ftol) ==
    {[ok |-> TRUE, x |-> c] : c \in {c \in Candidates : MaxNorm(cstr_fn(c, tau)) <= ftol}}
        \cup {[ok |-> FALSE, x |-> xin]}

\* The termination check of the first iteration divides the infinite initial
\* step norm by x_rtol = inf once the residual test has passed, which is the
\* "invalid value encountered" RuntimeWarning of the cell's stderr output.
warns(tau, xin, ftol) == MaxNorm(cstr_fn(xin, tau)) <= ftol

\* a loop body that catches the failure, keeps the iterate and goes on
LocusStep_swallow ==
    /\ pc = "locus"
    /\ tau_i <= Len(cstr_ts)
    /\ LET tau == cstr_ts[tau_i]
       IN  /\ \E r \in newton_krylov(tau, c_guess, f_tol) :
                /\ seeds' = Append(seeds, [tau |-> tau, x0 |-> c_guess, ok |-> r.ok, x |-> r.x])
                /\ c_guess' = r.x
                /\ cstr_cs' = Append(cstr_cs, r.x)
                /\ tau_i' = tau_i + 1
                /\ pc' = IF tau_i = Len(cstr_ts) THEN "interact" ELSE "locus"
           /\ warned' = (warned \/ warns(tau, c_guess, f_tol))
    /\ UNCHANGED <<cstr_cf, plotVars, fnVars, hpVars>>

\* a loop body that stores the guess it started from instead of the solution
LocusStep_stale ==
    /\ pc = "locus"
    /\ tau_i <= Len(cstr_ts)
    /\ LET tau == cstr_ts[tau_i]
       IN  /\ \E r \in newton_krylov(tau, c_guess, f_tol) :
                /\ seeds' = Append(seeds, [tau |-> tau, x0 |-> c_guess, ok |-> r.ok, x |-> r.x])
                /\ IF r.ok
                   THEN /\ c_guess' = r.x
                        /\ cstr_cs' = Append(cstr_cs, c_guess)
                        /\ tau_i' = tau_i + 1
                        /\ pc' = IF tau_i = Len(cstr_ts) THEN "interact" ELSE "locus"
                   ELSE /\ pc' = "raised"
                        /\ UNCHANGED <<c_guess, cstr_cs, tau_i>>
           /\ warned' = (warned \/ warns(tau, c_guess, f_tol))
    /\ UNCHANGED <<cstr_cf, plotVars, fnVars, hpVars>>

\* a loop body that never updates the guess: every solve starts from the feed
LocusStep_reseed ==
    /\ pc = "locus"
    /\ tau_i <= Len(cstr_ts)
    /\ LET tau == cstr_ts[tau_i]
       IN  /\ \E r \in newton_krylov(tau, c_guess, f_tol) :
                /\ seeds' = Append(seeds, [tau |-> tau, x0 |-> c_guess, ok |-> r.ok, x |-> r.x])
                /\ IF r.ok
                   THEN /\ cstr_cs' = Append(cstr_cs, r.x)
                        /\ tau_i' = tau_i + 1
                        /\ pc' = IF tau_i = Len(cstr_ts) THEN "interact" ELSE "locus"
                        /\ UNCHANGED c_guess
                   ELSE /\ pc' = "raised"
                        /\ UNCHANGED <<c_guess, cstr_cs, tau_i>>
           /\ warned' = (warned \/ warns(tau, c_guess, f_tol))
    /\ UNCHANGED <<cstr_cf, plotVars, fnVars, hpVars>>

\* One pass of "for tau in cstr_ts": solve, then update the guess and append.
\* There is no try/except around the solve: NoConvergence ends the cell.  After
\* the last pass the list is converted to an array (same entries, same order).
LocusStep ==
    /\ pc = "locus"
    /\ tau_i <= Len(cstr_ts)
    /\ LET tau == cstr_ts[tau_i]
       IN  /\ \E r \in newton_krylov(tau, c_guess, f_tol) :
                /\ seeds' = Append(seeds, [tau |-> tau, x0 |-> c_guess, ok |-> r.ok, x |-> r.x])
                /\ IF r.ok
                   THEN /\ c_guess' = r.x
                        /\ cstr_cs' = Append(cstr_cs, r.x)
                        /\ tau_i' = tau_i + 1
                        /\ pc' = IF tau_i = Len(cstr_ts) THEN "interact" ELSE "locus"
                   ELSE /\ pc' = "raised"
                        /\ UNCHANGED <<c_guess, cstr_cs, tau_i>>
           /\ warned' = (warned \/ warns(tau, c_guess, f_tol))
    /\ UNCHANGED <<cstr_cf, plotVars, fnVars, hpVars>>

----------------------------------------------------------------------------
(* DSR notebook: plot_fn and the sliders *)

\* Slider values: a few of t_end in 1..100 (step 1), alpha in 0..5 (step
\* 0.005), Cf_x and Cf_y in 0..1 (step 0.01).
TEnds == {Scale, 10 * Scale}
Alphas == {0, Scale \div 200, Scale \div 2, Scale}
FeedVals == {0, Scale \div 10, Scale \div 2, Scale}

\* sp.logspace(-3, log10(t_end), 100), sampled at the whole decades
RECURSIVE logspace(_, _)
logspace(first, t_end) ==
    IF first >= t_end THEN <<t_end>> ELSE <<first>> \o logspace(10 * first, t_end)

\* odeint(dsr_fn, y0, t, args): one row per entry of t, the first row y0.  The
\* integrator is an external routine; the rows after the first are advanced by
\* one explicit step of dsr_fn per grid interval, so the rows say which
\* arguments reach dsr_fn and nothing about the accuracy of the integration.
RECURSIVE odeint(_, _, _)
odeint(y0, t, args) ==
    IF Len(t) <= 1 THEN <<y0>>
    ELSE LET head == odeint(y0, SubSeq(t, 1, Len(t) - 1), args)
             y    == head[Len(head)]
             tk   == t[Len(t) - 1]
             h    == t[Len(t)] - tk
         IN  Append(head, VAdd(y, VScale(h, dsr_fn(y, <<tk>>, args))))

\* a callback that stores the slider feed in the global CSTR feed
plot_fn_global(t_end, alpha, Cf_x, Cf_y) ==
    /\ pc = "interact"
    /\ Cf' = <<Cf_x, Cf_y>>
    /\ ts' = logspace(Scale \div 1000, t_end)
    /\ cstr_cf' = <<Cf_x, Cf_y>>
    /\ dsr_opts' = <<alpha, cstr_cf'>>
    /\ dsr_cs' = odeint(Cf', ts', dsr_opts')
    /\ UNCHANGED <<pc, tau_i, c_guess, cstr_cs, seeds, warned, fnVars, hpVars>>

\* a callback that feeds the side stream from the feed sliders
plot_fn_sidefeed(t_end, alpha, Cf_x, Cf_y) ==
    /\ pc = "interact"
    /\ Cf' = <<Cf_x, Cf_y>>
    /\ ts' = logspace(Scale \div 1000, t_end)
    /\ LET C0 == Cf'
       IN  dsr_opts' = <<alpha, C0>>
    /\ dsr_cs' = odeint(Cf', ts', dsr_opts')
    /\ UNCHANGED <<nbVars, fnVars, hpVars>>

plot_fn(t_end, alpha, Cf_x, Cf_y) ==
    /\ pc = "interact"
    /\ Cf' = <<Cf_x, Cf_y>>
    /\ ts' = logspace(Scale \div 1000, t_end)
    /\ LET C0 == cstr_cf
       IN  dsr_opts' = <<alpha, C0>>
    /\ dsr_cs' = odeint(Cf', ts', dsr_opts')
    /\ UNCHANGED <<nbVars, fnVars, hpVars>>

\* interact(plot_fn, ...): every slider change calls plot_fn
Interact ==
    \E t_end \in TEnds, alpha \in Alphas, Cf_x \in FeedVals, Cf_y \in FeedVals :
        plot_fn(t_end, alpha, Cf_x, Cf_y)

----------------------------------------------------------------------------
(* Initial values shared by the specifications *)

NoneYet == <<>>

InitNb ==
    /\ pc = "locus"
    /\ tau_i = 1
    /\ cstr_cf = <<Scale, Scale \div 10>>
    /\ c_guess = cstr_cf
    /\ cstr_cs = <<>>
    /\ seeds = <<>>
    /\ warned = FALSE

InitPlot ==
    /\ Cf = NoneYet
    /\ ts = NoneYet
    /\ dsr_opts = NoneYet
    /\ dsr_cs = NoneYet

InitFn ==
    /\ fC = NoneYet
    /\ fC0 = NoneYet
    /\ ft = NoneYet
    /\ dsr_out = <<>>
    /\ rate_out = <<>>
    /\ vdv_out = NoneYet

InitHp ==
    /\ hp_b = NoneYet
    /\ hp_A = NoneYet
    /\ P_cs = {}

\* The DSR notebook run top to bottom: the locus cell, then the sliders.
Init == InitNb /\ InitPlot /\ InitFn /\ InitHp
Next == LocusStep \/ Interact
Spec == Init /\ [][Next]_vars

----------------------------------------------------------------------------
(* Bounding hyperplane notebook: kinetics, feed point and stoichiometry *)

vdv_k1 == Scale
vdv_k2 == Scale
k3 == 10 * Scale

\* "2D van de Vusse kinetics": r = [rA, rB]
rate_fn_vdv(C, t) ==
    LET cA == C[1]
        cB == C[2]
    IN  <<Mul(-vdv_k1, cA) - Mul(2 * k3, Mul(cA, cA)),
          Mul(vdv_k1, cA) - Mul(vdv_k2, cB)>>

\* stoich_mat = array([[-1, 1, 0], [0, -1, 1]]).T : one row per species
stoich_mat == <<<<-Scale, 0>>, <<Scale, -Scale>>, <<0, Scale>>>>
Cf0 == <<Scale, 0, 0>>

----------------------------------------------------------------------------
(* The functions called on their own: rate_fn, dsr_fn and the van de Vusse
   rate_fn are evaluated for arguments drawn from bounded sets. *)

\* mixing factors k * 0.005, k = 0..MaxAlphaK
MaxAlphaK == 4
AlphaStep == Scale \div 200
FnAlphas == {k * AlphaStep : k \in 0..MaxAlphaK}

CVals == {0, 3333, Scale}
CVecs == {<<a, b>> : a \in CVals, b \in CVals}
C0Vecs == {<<Scale, Scale \div 10>>, <<Scale \div 2, 2500>>, <<0, Scale \div 2>>}
Times == {<<>>, <<0>>, <<Scale>>}

\* rate_fn(fC, t) is called and its value recorded
Call_rate_fn(t) ==
    /\ rate_out' = [u \in DOMAIN rate_out \cup {t} |->
                      IF u = t
                      THEN (IF t \in DOMAIN rate_out THEN rate_out[t] ELSE {})
                               \cup {rate_fn(fC, t)}
                      ELSE rate_out[u]]
    /\ UNCHANGED <<nbVars, plotVars, hpVars, fC, fC0, ft, dsr_out, vdv_out>>

\* dsr_fn(fC, ft, (alpha, fC0)) is called and its value recorded
Call_dsr_fn(alpha) ==
    /\ alpha \notin DOMAIN dsr_out
    /\ dsr_out' = [a \in DOMAIN dsr_out \cup {alpha} |->
                     IF a = alpha THEN dsr_fn(fC, ft, <<alpha, fC0>>) ELSE dsr_out[a]]
    /\ UNCHANGED <<nbVars, plotVars, hpVars, fC, fC0, ft, rate_out, vdv_out>>

\* the van de Vusse rate_fn is called on the feed point Cf0
Call_rate_fn_vdv(t) ==
    /\ vdv_out = NoneYet
    /\ vdv_out' = rate_fn_vdv(Cf0, t)
    /\ UNCHANGED <<nbVars, plotVars, hpVars, fC, fC0, ft, dsr_out, rate_out>>

InitCalls ==
    /\ InitNb /\ InitHp
    /\ ts = NoneYet /\ dsr_opts = NoneYet /\ dsr_cs = NoneYet
    /\ Cf \in C0Vecs
    /\ fC \in CVecs
    /\ fC0 \in C0Vecs
    /\ ft \in {<<0>>, <<Scale>>}
    /\ dsr_out = <<>>
    /\ rate_out = <<>>
    /\ vdv_out = NoneYet

NextCalls ==
    \/ \E t \in Times : Call_rate_fn(t)
    \/ \E alpha \in FnAlphas : Call_dsr_fn(alpha)
    \/ \E t \in Times : Call_rate_fn_vdv(t)

SpecCalls == InitCalls /\ [][NextCalls]_vars

----------------------------------------------------------------------------
(* dsr_fn called near its stationary points: concentration vectors at or next
   to a zero of the DSR right-hand side or of the CSTR balance, and the mixing
   factors (slider values, multiples of 0.005) that go with them. *)

StatVecs == {<<5000, 3000>>, <<2000, 1800>>, <<665, 700>>, <<7843, 2475>>,
             <<8037, 2381>>, <<9741, 1226>>, <<390, 577>>, <<3333, 3333>>}
StatAlphas == {50, 450, 3000, 9000, 9750, 46200}

InitStationary ==
    /\ InitNb /\ InitHp
    /\ ts = NoneYet /\ dsr_opts = NoneYet /\ dsr_cs = NoneYet
    /\ Cf = cstr_cf
    /\ fC \in StatVecs
    /\ fC0 \in C0Vecs
    /\ ft = <<0>>
    /\ dsr_out = <<>>
    /\ rate_out = <<>>
    /\ vdv_out = NoneYet

NextStationary == \E alpha \in StatAlphas : Call_dsr_fn(alpha)

SpecStationary == InitStationary /\ [][NextStationary]_vars

----------------------------------------------------------------------------
(* Bounding hyperplane notebook: the polytope demo.  Constraint coefficients
   and bounds are integers in units of 1/HpScale; a vertex is a pair of exact
   fractions <<numerator, denominator>> in lowest terms. *)

HpScale == 100

RECURSIVE GCD(_, _)
GCD(m, n) == IF n = 0 THEN m ELSE GCD(n, m % n)

Rat(n, d) ==
    LET g == GCD(Abs(n), Abs(d))
    IN  <<Sgn(d) * (n \div g), Abs(d) \div g>>

\* the point where constraint lines i and j of A x = b meet (not parallel)
Det(A, i, j) == A[i][1] * A[j][2] - A[i][2] * A[j][1]
Meet(A, b, i, j) ==
    LET d  == Det(A, i, j)
        xn == b[i] * A[j][2] - A[i][2] * b[j]
        yn == A[i][1] * b[j] - b[i] * A[j][1]
    IN  <<Rat(xn, d), Rat(yn, d)>>

\* A p <= b for the point p
Satisfies(A, b, p) ==
    \A k \in 1..Len(A) :
        A[k][1] * p[1][1] * p[2][2] + A[k][2] * p[2][1] * p[1][2]
            <= b[k] * p[1][2] * p[2][2]

\* a vertex enumeration that only looks at consecutive constraints
con2vert_adjacent(A, b) ==
    {p \in {Meet(A, b, i, i + 1) : i \in {i \in 1..(Len(A) - 1) : Det(A, i, i + 1) # 0}} :
        Satisfies(A, b, p)}

\* artools.con2vert(A, b): the extreme points of {x : A x <= b}, the points
\* where two constraint lines meet that satisfy every constraint.
con2vert(A, b) ==
    LET pairs == {ij \in (1..Len(A)) \X (1..Len(A)) :
                      ij[1] < ij[2] /\ Det(A, ij[1], ij[2]) # 0}
    IN  {p \in {Meet(A, b, ij[1], ij[2]) : ij \in pairs} : Satisfies(A, b, p)}

\* the slider bi = (0, 1, 0.02)
BiVals == {2 * k : k \in 0..50}

\* the slider value entered one unit too low: bi - 1 as the fourth bound
plot_fn_hp_shift(bi) ==
    /\ hp_A' = <<<<-HpScale, 0>>, <<0, -HpScale>>, <<HpScale, HpScale>>,
                 <<-(HpScale \div 10), 8 * (HpScale \div 10)>>>>
    /\ hp_b' = <<0, 0, HpScale, bi - HpScale>>
    /\ P_cs' = con2vert(hp_A', hp_b')
    /\ UNCHANGED <<nbVars, plotVars, fnVars>>

\* plot_fn(bi) of the demo: the constraint set and its vertices (the rest of
\* the function draws)
plot_fn_hp(bi) ==
    /\ hp_A' = <<<<-HpScale, 0>>, <<0, -HpScale>>, <<HpScale, HpScale>>,
                 <<-(HpScale \div 10), 8 * (HpScale \div 10)>>>>
    /\ hp_b' = <<0, 0, HpScale, bi>>
    /\ P_cs' = con2vert(hp_A', hp_b')
    /\ UNCHANGED <<nbVars, plotVars, fnVars>>

\* Known square regions x0 <= x <= x0 + w, y0 <= y <= y0 + w with integer
\* corners, |x0|, |y0| <= MaxBox and 1 <= w <= MaxBox; the unit square is
\* x0 = y0 = 0, w = 1.
MaxBox == 2
SquareA == <<<<-HpScale, 0>>, <<0, -HpScale>>, <<HpScale, 0>>, <<0, HpScale>>>>
SquareB(x0, y0, w) ==
    <<-x0 * HpScale, -y0 * HpScale, (x0 + w) * HpScale, (y0 + w) * HpScale>>

\* con2vert applied to the half-plane constraints of a known square
Call_con2vert(x0, y0, w) ==
    /\ hp_A' = SquareA
    /\ hp_b' = SquareB(x0, y0, w)
    /\ P_cs' = con2vert(hp_A', hp_b')
    /\ UNCHANGED <<nbVars, plotVars, fnVars>>

NextPoly ==
    \/ \E bi \in BiVals : plot_fn_hp(bi)
    \/ \E x0 \in -MaxBox..MaxBox, y0 \in -MaxBox..MaxBox, w \in 1..MaxBox :
           Call_con2vert(x0, y0, w)

SpecPoly == Init /\ [][NextPoly]_vars

----------------------------------------------------------------------------
(* Properties of dsr_fn and rate_fn, checked under SpecCalls *)

\* dsr_fn minus the kinetics, for a recorded call
Relax(a) == VSub(dsr_out[a], rate_fn(fC, ft))

C2_AlphaZeroIsRate ==
    0 \in DOMAIN dsr_out => dsr_out[0] = rate_fn(fC, ft)

\* a call with alpha = 0 where C0 differs from C in both components and the
\* rate is not zero
C2_Witness ==
    /\ 0 \in DOMAIN dsr_out
    /\ fC0[1] # fC[1] /\ fC0[2] # fC[2]
    /\ fC[1] # 0 /\ fC[2] # 0
    /\ rate_fn(fC, ft) # <<0, 0>>

C9_RateHasDimensionOfC ==
    /\ \A t \in DOMAIN rate_out : \A r \in rate_out[t] : Len(r) = Len(fC)
    /\ vdv_out # NoneYet =>
           /\ Len(vdv_out) = Len(Cf0)
           /\ Len(vdv_out) = Len(stoich_mat)

\* C10: rate_fn does not depend on its time argument or on when it is
\* called (all values recorded for one C agree, the empty list included), and
\* a call changes no state of the notebook.
C10_RateIgnoresTime ==
    /\ [](\A t1 \in DOMAIN rate_out, t2 \in DOMAIN rate_out :
              /\ rate_out[t1] = rate_out[t2]
              /\ Cardinality(rate_out[t1]) = 1)
    /\ [][rate_out' # rate_out =>
              UNCHANGED <<nbVars, plotVars, hpVars, fC, fC0, ft, dsr_out, vdv_out>>]_vars

\* rate_fn was called with the empty list and with a positive time, for a C
\* whose rate is not zero
C10_Witness ==
    /\ <<>> \in DOMAIN rate_out
    /\ <<Scale>> \in DOMAIN rate_out
    /\ rate_out[<<>>] # {<<0, 0>>}

----------------------------------------------------------------------------
(* Properties of the DSR notebook run, checked under Spec *)

\* the CSTR balance of locus entry i, written out per component
Balance(i) ==
    LET C   == cstr_cs[i]
        tau == cstr_ts[i]
        r   == rate_fn(C, <<>>)
    IN  [j \in 1..2 |-> cstr_cf[j] + Mul(tau, r[j]) - C[j]]

\* C3: every vector stored in cstr_cs satisfies cstr_cf + tau*rate_fn(C) - C = 0
\* to within f_tol for the residence time it was stored for.
C3_LocusMeetsTolerance ==
    \A i \in 1..Len(cstr_cs) : \A j \in 1..2 : Abs(Balance(i)[j]) <= f_tol

\* the locus is complete, moves away from the feed, and one entry has a
\* residual that is not zero
C3_Witness ==
    /\ pc = "interact"
    /\ Len(cstr_cs) = Len(cstr_ts)
    /\ cstr_cs[2] # cstr_cs[1]
    /\ \E i \in 1..Len(cstr_cs) : Balance(i) # <<0, 0>>

\* C4 as stated: a solve that fails does not halt the loop; its result is
\* appended and the locus ends with one entry per residence time.
C4_FailureDoesNotHalt ==
    \A i \in 1..Len(seeds) :
        ~seeds[i].ok => (pc # "raised" /\ Len(cstr_cs) >= i)

\* C4 amended: a solve that fails to converge raises and ends the loop at that
\* residence time: nothing is appended for it, the guess is left as it was and
\* the locus holds the solutions of the earlier residence times only.  A
\* warning does not end the loop.  The locus has one entry per residence time
\* exactly when every solve converged.
C4_FailureHaltsLoop ==
    /\ \A i \in 1..Len(seeds) :
           ~seeds[i].ok =>
               /\ pc = "raised"
               /\ i = Len(seeds)
               /\ tau_i = i
               /\ Len(cstr_cs) = i - 1
               /\ c_guess = seeds[i].x0
    /\ pc = "raised" => (seeds # <<>> /\ ~seeds[Len(seeds)].ok)
    /\ pc = "interact" =>
           /\ Len(cstr_cs) = Len(cstr_ts)
           /\ \A i \in 1..Len(seeds) : seeds[i].ok
    /\ pc = "locus" => (Len(cstr_cs) = tau_i - 1 /\ Len(seeds) = tau_i - 1)

\* the third solve fails after a warning and two stored solutions
C4_Witness ==
    /\ pc = "raised"
    /\ warned
    /\ Len(seeds) = 3
    /\ Len(cstr_cs) = 2

\* C6: once the locus loop has finished, no plot_fn invocation changes
\* cstr_cs or cstr_cf.
C6_LocusReadOnly ==
    [][pc = "interact" => (cstr_cs' = cstr_cs /\ cstr_cf' = cstr_cf)]_vars

\* plot_fn has run on the complete locus with a feed other than the CSTR feed
C6_Witness ==
    /\ pc = "interact"
    /\ Len(cstr_cs) = Len(cstr_ts)
    /\ dsr_cs # NoneYet
    /\ Cf # cstr_cf
    /\ dsr_opts[1] > 0

----------------------------------------------------------------------------
(* Properties of the polytope vertex enumeration, checked under SpecPoly *)

\* C7: for the constraints of a known square region con2vert returns exactly
\* its four corners: none missing, none extra, each satisfying every
\* constraint.  For the unit square these are (0,0), (1,0), (0,1), (1,1).
C7_SquareHasFourCorners ==
    hp_A = SquareA =>
        LET x0 == Rat(-hp_b[1], HpScale)
            y0 == Rat(-hp_b[2], HpScale)
            x1 == Rat(hp_b[3], HpScale)
            y1 == Rat(hp_b[4], HpScale)
        IN  /\ P_cs = {<<x0, y0>>, <<x1, y0>>, <<x0, y1>>, <<x1, y1>>}
            /\ Cardinality(P_cs) = 4
            /\ \A p \in P_cs : Satisfies(hp_A, hp_b, p)
            /\ hp_b = <<0, 0, HpScale, HpScale>> =>
                   P_cs = {<<<<0, 1>>, <<0, 1>>>>, <<<<1, 1>>, <<0, 1>>>>,
                           <<<<0, 1>>, <<1, 1>>>>, <<<<1, 1>>, <<1, 1>>>>}

\* con2vert has been applied to the unit square
C7_Witness ==
    /\ hp_A = SquareA
    /\ hp_b = <<0, 0, HpScale, HpScale>>
    /\ Cardinality(P_cs) = 4

\* C12: the residence times are visited in strictly increasing order, one solve
\* per entry of cstr_ts; the first solve is seeded with the feed cstr_cf and
\* the i-th with the solution stored for the (i-1)-th residence time; the i-th
\* entry of cstr_cs is what the i-th solve returned.
C12_ContinuationSeeding ==
    /\ \A i \in 1..Len(seeds) :
           /\ seeds[i].tau = cstr_ts[i]
           /\ i > 1 => seeds[i].tau > seeds[i - 1].tau
           /\ i = 1 => seeds[i].x0 = cstr_cf
           /\ i > 1 => seeds[i].x0 = cstr_cs[i - 1]
    /\ \A i \in 1..Len(cstr_cs) :
           /\ seeds[i].ok
           /\ cstr_cs[i] = seeds[i].x
    /\ Len(cstr_cs) <= Len(seeds)
    /\ Len(seeds) <= Len(cstr_ts)

\* three solves have run and the third started from a solution that is neither
\* the feed nor the first solution
C12_Witness ==
    /\ Len(seeds) >= 3
    /\ Len(cstr_cs) >= 3
    /\ seeds[3].x0 # cstr_cf
    /\ seeds[3].x0 # cstr_cs[1]
    /\ cstr_cs[3] # cstr_cs[2]

\* C13: in every plot_fn invocation the side-stream composition handed to
\* dsr_fn is the CSTR feed cstr_cf = [1.0, 0.1] whatever the sliders say; the
\* slider feed is the initial state of the integration only; and the
\* trajectory is the integration of the current invocation's own parameters,
\* whatever was plotted before.
C13_SideStreamIsCstrFeed ==
    dsr_cs # NoneYet =>
        /\ dsr_opts[2] = cstr_cf
        /\ dsr_opts[2] = <<Scale, Scale \div 10>>
        /\ dsr_cs[1] = Cf
        /\ Len(dsr_cs) = Len(ts)
        /\ ts = logspace(Scale \div 1000, ts[Len(ts)])
        /\ dsr_cs = odeint(Cf, ts, dsr_opts)
        /\ \A k \in 1..(Len(ts) - 1) : \A j \in 1..2 :
               dsr_cs[k + 1][j] - dsr_cs[k][j] =
                   Mul(ts[k + 1] - ts[k],
                       rate_fn(dsr_cs[k], <<ts[k]>>)[j]
                           + Mul(dsr_opts[1], cstr_cf[j] - dsr_cs[k][j]))

\* plot_fn has run with a slider feed other than the CSTR feed and a mixing
\* factor above zero, and the trajectory has left its initial state
C13_Witness ==
    /\ dsr_cs # NoneYet
    /\ Cf # cstr_cf
    /\ dsr_opts[1] > 0
    /\ dsr_cs[Len(dsr_cs)] # dsr_cs[1]
    /\ dsr_opts[2] # Cf

----------------------------------------------------------------------------
(* The constraint set of the polytope demo, checked under SpecPoly *)

\* test points from -0.2 to 1.2 in steps of 0.1 in either coordinate
TestCoords == {k * (HpScale \div 10) : k \in -2..12}

\* A p <= b for the point p / HpScale
Feasible(A, b, p) ==
    \A k \in 1..Len(A) : A[k][1] * p[1] + A[k][2] * p[2] <= b[k] * HpScale

\* C16: whenever the demo's plot_fn has built its constraint set, A and the
\* first three bounds are the fixed ones and the fourth is a slider value;
\* the origin satisfies all four constraints, every feasible test point lies
\* in 0 <= x <= 1, 0 <= y <= 1, and the vertex set is not empty.
C16_FeasibleAndBounded ==
    (hp_A # NoneYet /\ hp_A # SquareA) =>
        /\ hp_A = <<<<-HpScale, 0>>, <<0, -HpScale>>, <<HpScale, HpScale>>,
                    <<-(HpScale \div 10), 8 * (HpScale \div 10)>>>>
        /\ SubSeq(hp_b, 1, 3) = <<0, 0, HpScale>>
        /\ Len(hp_b) = 4
        /\ hp_b[4] \in BiVals
        /\ Feasible(hp_A, hp_b, <<0, 0>>)
        /\ \A x \in TestCoords : \A y \in TestCoords :
               Feasible(hp_A, hp_b, <<x, y>>) =>
                   /\ 0 <= x /\ x <= HpScale
                   /\ 0 <= y /\ y <= HpScale
        /\ P_cs # {}
        /\ \A p \in P_cs :
               /\ 0 <= p[1][1] /\ p[1][1] <= p[1][2]
               /\ 0 <= p[2][1] /\ p[2][1] <= p[2][2]

\* plot_fn has run with the slider at its lowest value bi = 0, the smallest
\* constraint set: a triangle with the origin as a vertex
C16_Witness ==
    /\ hp_A # NoneYet /\ hp_A # SquareA
    /\ hp_b = <<0, 0, HpScale, 0>>
    /\ Cardinality(P_cs) = 3
    /\ <<Rat(0, 1), Rat(0, 1)>> \in P_cs

----------------------------------------------------------------------------
(* The boundary of the non-negative orthant, checked under SpecCalls *)

\* C15: for alpha >= 0 and a side-stream C0 with non-negative components, the
\* first component of dsr_fn is >= 0 where cA = 0 and cB >= 0, and the second
\* component is >= 0 where cB = 0 and cA >= 0.
C15_OrthantNotLeft ==
    \A a \in DOMAIN dsr_out :
        (a >= 0 /\ fC0[1] >= 0 /\ fC0[2] >= 0) =>
            /\ (fC[1] = 0 /\ fC[2] >= 0) => dsr_out[a][1] >= 0
            /\ (fC[2] = 0 /\ fC[1] >= 0) => dsr_out[a][2] >= 0

\* a call on the face cA = 0 with alpha > 0: the first component points
\* inwards while the second, unclamped, is negative
C15_Witness ==
    \E a \in DOMAIN dsr_out :
        /\ a > 0
        /\ fC[1] = 0 /\ fC[2] > 0
        /\ dsr_out[a][1] > 0
        /\ dsr_out[a][2] < 0
        /\ rate_fn(fC, ft)[2] < 0

----------------------------------------------------------------------------
(* Stationary points of the DSR equation, checked under SpecStationary *)

\* the residence time tau = 1/alpha
Recip(alpha) == RDiv(Scale * Scale, alpha)

\* the CSTR balance C0 + tau*rate_fn(C) - C for a feed C0
BalanceAt(C, C0, tau) == VSub(VAdd(C0, VScale(tau, rate_fn(C, <<>>))), C)

C14_WitnessBoth ==
    \E a \in DOMAIN dsr_out :
        /\ a > 0
        /\ dsr_out[a] = <<0, 0>>
        /\ BalanceAt(fC, fC0, Recip(a)) = <<0, 0>>

=============================================================================
